---- MODULE Spec2Model ----
(***************************************************************************)
(* Seam carving engine of liquid-resize-demo.                              *)
(*                                                                         *)
(*   src/src/algorithms/original.rs  OriginalAlgo: energy, dp, backtrace,  *)
(*                                   seam removal                          *)
(*   src/src/main.rs                 CarvingEngine: background worker,     *)
(*                                   seam history, replay; the UI frame    *)
(*                                                                         *)
(* Vectors are 0-indexed in the source and 1-indexed here: Nth(s, i) is    *)
(* s[i] of the source.  A u32 value of 2^31 or more is written as its      *)
(* two's-complement negative (0xFFFFFFFF is -1), and compared with         *)
(* U32Less.  A grid is [pixels, width, height], a pixel is <<r, g, b>>.    *)
(***************************************************************************)
EXTENDS Integers, Sequences, FiniteSets, TLC

VARIABLES
    build,          \* "debug" (overflow checks panic) or "release" (they wrap)
    grid,           \* AlgoSpec: the OriginalAlgo a call is made on
    result,         \* AlgoSpec: what remove_vertical_seam did on grid
    apc,            \* AlgoSpec: "ready" before the call, "done" after it
    sessions,       \* every CarvingEngine constructed so far, the last one being
                    \* LiquidResizeApp.image_bundle; a replaced engine's algo and
                    \* removed_seams live on in its worker's Arc clones
    slider_value,   \* LiquidResizeApp.slider_value
    dragging,       \* the slider is being dragged (egui's interaction state)
    req,            \* the value the pointer last asked the slider for
    slider_hi,      \* the end of the slider's range when slider_value was written
    ui              \* the UI thread: pc, and remove_seams' locals

vars == <<build, grid, result, apc, sessions, slider_value, dragging, req,
          slider_hi, ui>>

algoVars == <<grid, result, apc>>

engineVars == <<sessions, slider_value, dragging, req, slider_hi, ui>>

----------------------------------------------------------------------------
(* Bounds of the model *)

MaxW == 3
MaxH == 3
MaxSmallW == 1      \* engine images below the floor: widths 1..MaxSmallW
MaxExtra == 2       \* engine images at the floor or above: Floor..Floor + MaxExtra
MaxImgH == 2        \* engine images: heights 1..MaxImgH

Builds == {"debug", "release"}

Black == <<0, 0, 0>>
Grey10 == <<10, 10, 10>>
Palette == {Black, Grey10}

----------------------------------------------------------------------------
(* Helpers for the source's vectors and integers *)

Nth(s, i) == s[i + 1]

ReadOk(s, i) == i >= 0 /\ i < Len(s)

U32Less(a, b) == IF (a >= 0) = (b >= 0) THEN a < b ELSE b < 0

Min2(a, b) == IF b < a THEN b ELSE a

Reverse(s) == [k \in 1..Len(s) |-> s[Len(s) + 1 - k]]

MkGrid(p, w, h) == [pixels |-> p, width |-> w, height |-> h]

----------------------------------------------------------------------------
(* OriginalAlgo *)

index_of(g, row, col) == g.width * row + col

Sq(x) == x * x

ChanDiff(p, q) == Sq(p[1] - q[1]) + Sq(p[2] - q[2]) + Sq(p[3] - q[3])

\* A mutation of calculate_energy_matrix: forward differences (the pixel itself
\* against its right and lower neighbour) instead of left against right.
calculate_energy_matrix_forward(g) ==
    [k \in 1..(g.width * g.height) |->
        LET row == (k - 1) \div g.width
            col == (k - 1) % g.width
            self == Nth(g.pixels, g.width * row + col)
            right == IF col = g.width - 1 THEN self
                     ELSE Nth(g.pixels, g.width * row + col + 1)
            below == IF row = g.height - 1 THEN self
                     ELSE Nth(g.pixels, g.width * (row + 1) + col)
        IN  ChanDiff(self, right) + ChanDiff(self, below)]

calculate_energy_matrix(g) ==
    [k \in 1..(g.width * g.height) |->
        LET row == (k - 1) \div g.width
            col == (k - 1) % g.width
            left == IF col = 0 THEN Nth(g.pixels, g.width * row + col)
                    ELSE Nth(g.pixels, g.width * row + col - 1)
            right == IF col = g.width - 1 THEN Nth(g.pixels, g.width * row + col)
                     ELSE Nth(g.pixels, g.width * row + col + 1)
            x_diff == ChanDiff(left, right)
            above == IF row = 0 THEN Nth(g.pixels, g.width * row + col)
                     ELSE Nth(g.pixels, g.width * (row - 1) + col)
            below == IF row = g.height - 1 THEN Nth(g.pixels, g.width * row + col)
                     ELSE Nth(g.pixels, g.width * (row + 1) + col)
            y_diff == ChanDiff(above, below)
        IN  x_diff + y_diff]

DpPanic(dp) == [ok |-> FALSE, dp |-> dp]

\* for col in 1..self.width - 1: one dp value pushed per interior column
RECURSIVE dp_middle(_, _, _, _, _)
dp_middle(g, en, dp, row, col) ==
    IF ~U32Less(col, g.width - 1) THEN [ok |-> TRUE, dp |-> dp]
    ELSE LET e == index_of(g, row, col)
             a == index_of(g, row - 1, col - 1)
             b == index_of(g, row - 1, col)
             c == index_of(g, row - 1, col + 1)
         IN  IF ReadOk(en, e) /\ ReadOk(dp, a) /\ ReadOk(dp, b) /\ ReadOk(dp, c)
             THEN dp_middle(g, en,
                      Append(dp, Nth(en, e)
                                 + Min2(Nth(dp, a), Min2(Nth(dp, b), Nth(dp, c)))),
                      row, col + 1)
             ELSE DpPanic(dp)

\* for row in 1..self.height: left_dp, the interior columns, right_dp
RECURSIVE dp_rows(_, _, _, _, _)
dp_rows(g, bld, en, dp, row) ==
    IF row >= g.height THEN [ok |-> TRUE, dp |-> dp]
    ELSE LET e == index_of(g, row, 0)
             a == index_of(g, row - 1, 0)
             b == index_of(g, row - 1, 1)
         IN  IF ~(ReadOk(en, e) /\ ReadOk(dp, a) /\ ReadOk(dp, b)) THEN DpPanic(dp)
             ELSE IF bld = "debug" /\ g.width = 0 THEN DpPanic(dp)
             ELSE
               LET dp1 == Append(dp, Nth(en, e) + Min2(Nth(dp, a), Nth(dp, b)))
                   mid == dp_middle(g, en, dp1, row, 1)
                   re == index_of(g, row, g.width - 1)
                   ra == index_of(g, row - 1, g.width - 1)
                   rb == index_of(g, row - 1, g.width - 2)
               IN  IF ~mid.ok THEN mid
                   ELSE IF ~(ReadOk(en, re) /\ ReadOk(mid.dp, ra) /\ ReadOk(mid.dp, rb))
                        THEN DpPanic(mid.dp)
                   ELSE dp_rows(g, bld, en,
                            Append(mid.dp, Nth(en, re)
                                           + Min2(Nth(mid.dp, ra), Nth(mid.dp, rb))),
                            row + 1)

\* A mutation of min_by_key: the last of several equal minima (a <= scan).
min_by_key_last(dp, lo, hi) ==
    CHOOSE i \in lo..hi :
        \A j \in lo..hi : /\ Nth(dp, j) >= Nth(dp, i)
                          /\ (j > i => Nth(dp, j) > Nth(dp, i))

\* dp[lo..=hi].iter().enumerate().min_by_key(..): Iterator::min_by_key returns
\* the first of several equal minima.
min_by_key(dp, lo, hi) ==
    CHOOSE i \in lo..hi :
        \A j \in lo..hi : /\ Nth(dp, j) >= Nth(dp, i)
                          /\ (j < i => Nth(dp, j) > Nth(dp, i))

\* for row in (0..self.height).rev(): pick in dp[lo..=hi], then the window of
\* the row above
RECURSIVE backtrace(_, _, _, _, _, _)
backtrace(g, dp, row, lo, hi, acc) ==
    IF ~(lo >= 0 /\ hi >= 0 /\ lo <= hi /\ hi < Len(dp))
    THEN [ok |-> FALSE, to_remove |-> acc]
    ELSE LET new_idx == min_by_key(dp, lo, hi)
             acc1 == Append(acc, new_idx)
             w == g.width
             next == IF new_idx = index_of(g, row, 0)
                     THEN <<index_of(g, row - 1, 0), index_of(g, row - 1, 1)>>
                     ELSE IF new_idx = index_of(g, row, w - 1)
                     THEN <<index_of(g, row - 1, w - 2), index_of(g, row - 1, w - 1)>>
                     ELSE <<new_idx - w - 1, new_idx - w + 1>>
         IN  IF row = 0 THEN [ok |-> TRUE, to_remove |-> acc1]
             ELSE backtrace(g, dp, row - 1, next[1], next[2], acc1)

\* A mutation of seam_order: the reverse is forgotten.
seam_order_bottom_up(acc) == acc

\* to_remove.reverse(): the offsets were pushed from the last row to the first
seam_order(acc) == Reverse(acc)

\* self.pixels.iter().enumerate().filter(..): drops pixel i when it is
\* to_remove[k], and then moves k on
RECURSIVE algo_filter(_, _, _, _)
algo_filter(pixels, to_remove, i, k) ==
    IF i >= Len(pixels) THEN <<>>
    ELSE IF k /= Len(to_remove) /\ i = Nth(to_remove, k)
         THEN algo_filter(pixels, to_remove, i + 1, k + 1)
         ELSE <<Nth(pixels, i)>> \o algo_filter(pixels, to_remove, i + 1, k)

SeamPanic(g, en) == [ok |-> FALSE, seam |-> <<>>, energy |-> en, grid |-> g]

\* remove_vertical_seam: [ok] is FALSE when the call panics (self is then left
\* as it was: every panic is before self.pixels is assigned)
remove_vertical_seam(g, bld) ==
    LET en == calculate_energy_matrix(g)
    IN  IF Len(en) < g.width THEN SeamPanic(g, en)
        ELSE
          LET dp0 == SubSeq(en, 1, g.width)
              d == dp_rows(g, bld, en, dp0, 1)
          IN  IF ~d.ok THEN SeamPanic(g, en)
              ELSE IF bld = "debug" /\ g.width = 0 THEN SeamPanic(g, en)
              ELSE
                LET bt == backtrace(g, d.dp, g.height - 1,
                                    index_of(g, g.height - 1, 0),
                                    index_of(g, g.height - 1, g.width - 1), <<>>)
                    to_remove == seam_order(bt.to_remove)
                IN  IF ~bt.ok THEN SeamPanic(g, en)
                    ELSE [ok |-> TRUE, seam |-> to_remove, energy |-> en,
                          grid |-> MkGrid(algo_filter(g.pixels, to_remove, 0, 0),
                                          g.width - 1, g.height)]

----------------------------------------------------------------------------
(* AlgoSpec: remove_vertical_seam on every small grid *)

\* A coloured image of any size: its pixels differ in every channel.
Px(r, c) ==
    <<((3 * c + 2 * r) % 7) * 30, ((c * c + 4 * r) % 5) * 50, ((c + 2 * r) % 4) * 80>>

Img(w, h) == MkGrid([k \in 1..(w * h) |-> Px((k - 1) \div w, (k - 1) % w)], w, h)

UiIdle == [pc |-> "idle", i |-> 0, num_seams |-> 0, pixel_data |-> <<>>]

NoResult == [ok |-> FALSE, seam |-> <<>>, energy |-> <<>>, grid |-> MkGrid(<<>>, 0, 0)]

AlgoInit ==
    /\ build \in Builds
    /\ \E w \in 1..MaxW, h \in 1..MaxH :
           \/ \E p \in [1..(w * h) -> Palette] : grid = MkGrid(p, w, h)
           \/ grid = Img(w + MaxW, h)
    /\ result = NoResult
    /\ apc = "ready"
    /\ sessions = <<>>
    /\ slider_value = 0
    /\ dragging = FALSE
    /\ req = 0
    /\ slider_hi = 0
    /\ ui = UiIdle

Carve ==
    /\ apc = "ready"
    /\ result' = remove_vertical_seam(grid, build)
    /\ apc' = "done"
    /\ UNCHANGED <<build, grid>>
    /\ UNCHANGED engineVars

AlgoNext == Carve

AlgoSpec == AlgoInit /\ [][AlgoNext]_vars

----------------------------------------------------------------------------
(* CarvingEngine and the UI frame (src/src/main.rs) *)

Floor == 10

\* The decoded images a run may load: one per width.
ImageWidths == (1..MaxSmallW) \cup (Floor..(Floor + MaxExtra))

ImageHeight(w) == IF w > Floor THEN MaxImgH ELSE 1 + ((w + 1) % MaxImgH)

Images == {Img(w, ImageHeight(w)) : w \in ImageWidths}

\* What the pointer can ask the slider for: more than any history can hold.
Requests == 0..(MaxExtra + 1)

\* CarvingEngine::new: the working copy and the canvas start as the image, the
\* history is empty, and run_engine has spawned the worker.
NewEngine(img) ==
    [image |-> img,
     algo |-> img,
     algo_lock |-> "free",
     removed_seams |-> <<>>,
     lock |-> "free",
     poisoned |-> FALSE,
     canvas |-> img,
     wpc |-> "spawned",
     count |-> 0,
     iter |-> 0,
     to_push |-> <<>>]

\* The canvas of an engine that image_bundle no longer holds.
Dropped == MkGrid(<<>>, 0, 0)

bundle == sessions[Len(sessions)]

SetBundle(e) == sessions' = [sessions EXCEPT ![Len(sessions)] = e]

Init ==
    /\ build \in Builds
    /\ grid = MkGrid(<<>>, 0, 0)
    /\ result = NoResult
    /\ apc = "off"
    /\ sessions = <<>>
    /\ slider_value = 0
    /\ dragging = FALSE
    /\ req = 0
    /\ slider_hi = 0
    /\ ui = UiIdle

(* ---- the worker thread of run_engine ---- *)

\* The loop bound width - 10, a u32 subtraction
carve_iterations(width) == width - Floor

\* A mutation of the push: the new seam goes to the front of the history.
push_front(history, seam) == <<seam>> \o history

\* removed_seams.lock().unwrap().push(removed_incices)
push(history, seam) == Append(history, seam)

\* A mutation: the worker keeps the history guard after the push (a guard bound
\* outside the loop, as the algo guard is).
guard_kept(owner) == owner

\* The guard of removed_seams.lock() is a temporary of the push statement: it is
\* dropped at the end of that statement.
guard_dropped(owner) == "free"

\* algo.lock().unwrap(), then the loop bound: in a debug build width - 10 panics
\* below the floor (the unwinding drops the algo guard), in a release build it
\* wraps; a loop of no iterations ends the thread at once
WStart(s) ==
    /\ sessions[s].wpc = "spawned"
    /\ LET e == sessions[s]
           under == U32Less(e.image.width, Floor)
           n == carve_iterations(e.image.width)
       IN  sessions' = [sessions EXCEPT ![s] =
               IF under /\ build = "debug"
               THEN [e EXCEPT !.wpc = "panicked"]
               ELSE [e EXCEPT !.count = n,
                              !.wpc = IF U32Less(0, n) THEN "compute" ELSE "done",
                              !.algo_lock = IF U32Less(0, n) THEN "worker" ELSE "free"]]
    /\ UNCHANGED <<build, algoVars, slider_value, dragging, req, slider_hi, ui>>

\* algo.remove_vertical_seam(), on the worker's own grid
WCompute(s) ==
    /\ sessions[s].wpc = "compute"
    /\ LET e == sessions[s]
           r == remove_vertical_seam(e.algo, build)
       IN  sessions' = [sessions EXCEPT ![s] =
               IF r.ok
               THEN [e EXCEPT !.algo = r.grid, !.to_push = r.seam, !.wpc = "lock"]
               ELSE [e EXCEPT !.wpc = "panicked", !.algo_lock = "free"]]
    /\ UNCHANGED <<build, algoVars, slider_value, dragging, req, slider_hi, ui>>

\* removed_seams.lock().unwrap(): waits for the lock; unwrap panics on a
\* poisoned lock
WLock(s) ==
    /\ sessions[s].wpc = "lock"
    /\ sessions[s].lock = "free"
    /\ LET e == sessions[s]
       IN  sessions' = [sessions EXCEPT ![s] =
               IF e.poisoned
               THEN [e EXCEPT !.wpc = "panicked", !.algo_lock = "free"]
               ELSE [e EXCEPT !.lock = "worker", !.wpc = "push"]]
    /\ UNCHANGED <<build, algoVars, slider_value, dragging, req, slider_hi, ui>>

\* .push(removed_incices), the guard's drop, and the loop's next iteration test
WPush(s) ==
    /\ sessions[s].wpc = "push"
    /\ LET e == sessions[s]
           more == U32Less(e.iter + 1, e.count)
       IN  sessions' = [sessions EXCEPT ![s] =
               [e EXCEPT !.removed_seams = push(e.removed_seams, e.to_push),
                         !.to_push = <<>>,
                         !.lock = guard_dropped(e.lock),
                         !.iter = e.iter + 1,
                         !.wpc = IF more THEN "compute" ELSE "done",
                         !.algo_lock = IF more THEN "worker" ELSE "free"]]
    /\ UNCHANGED <<build, algoVars, slider_value, dragging, req, slider_hi, ui>>

(* ---- the UI thread: LiquidResizeApp::update ---- *)

\* "Open image" with a file that decodes, image_bundle being None:
\* image_bundle = Some(CarvingEngine::new(..))
Load(img) ==
    /\ ui.pc = "idle"
    /\ ~dragging
    /\ sessions = <<>>
    /\ sessions' = <<NewEngine(img)>>
    /\ UNCHANGED <<build, algoVars, slider_value, dragging, req, slider_hi, ui>>

\* "Open image" again: the same assignment drops the engine image_bundle held
\* (its image and canvas; its worker is neither told nor waited for, and keeps
\* its algo and removed_seams alive) and sets the new one.  A run replaces the
\* engine once.
Reload(img) ==
    /\ ui.pc = "idle"
    /\ ~dragging
    /\ Len(sessions) = 1
    /\ sessions' = <<[sessions[1] EXCEPT !.canvas = Dropped], NewEngine(img)>>
    /\ UNCHANGED <<build, algoVars, slider_value, dragging, req, slider_hi, ui>>

\* draw: image.width() - seams_removed, with the slider value a replaced engine
\* may have left
DrawUnderflow == U32Less(bundle.image.width, slider_value)

FrameReady ==
    /\ ui.pc = "idle"
    /\ Len(sessions) > 0
    /\ ~(DrawUnderflow /\ build = "debug")

DrawPanic ==
    /\ ui.pc = "idle"
    /\ Len(sessions) > 0
    /\ DrawUnderflow /\ build = "debug"
    /\ ui' = [ui EXCEPT !.pc = "panicked_draw"]
    /\ UNCHANGED <<build, algoVars, sessions, slider_value, dragging, req,
                   slider_hi>>

\* A mutation of the slider: the value is written as asked, outside the range.
slider_set_unclamped(n, hi) == n

\* Slider::new(&mut self.slider_value, 0..=seams_removed): a drag writes the
\* value the pointer asks for, clamped to the range
slider_set(n, hi) == IF n > hi THEN hi ELSE n

\* A frame in which the pointer is down on the slider, asking for n
FrameDrag(n) ==
    /\ FrameReady
    /\ bundle.lock = "free"
    /\ LET seams_removed == Len(bundle.removed_seams)
       IN  /\ slider_hi' = seams_removed
           /\ slider_value' = slider_set(n, seams_removed)
    /\ req' = n
    /\ dragging' = TRUE
    /\ UNCHANGED <<build, algoVars, sessions, ui>>

\* The frame in which the drag is released: remove_seams(gl, slider_value)
\* starts from a fresh copy of the image's pixels
FrameRelease ==
    /\ FrameReady
    /\ dragging
    /\ bundle.lock = "free"
    /\ dragging' = FALSE
    /\ ui' = [pc |-> IF U32Less(0, slider_value) THEN "rs_lock" ELSE "rs_canvas",
              i |-> 0,
              num_seams |-> slider_value,
              pixel_data |-> bundle.image.pixels]
    /\ UNCHANGED <<build, algoVars, sessions, slider_value, req, slider_hi>>

\* A mutation of replay_filter: k is never advanced, so only to_remove[0] is
\* skipped.
RECURSIVE replay_filter_stuck(_, _, _, _)
replay_filter_stuck(pixels, to_remove, i, k) ==
    IF i >= Len(pixels) THEN <<>>
    ELSE IF k /= Len(to_remove) /\ i = Nth(to_remove, k)
         THEN replay_filter_stuck(pixels, to_remove, i + 1, k)
         ELSE <<Nth(pixels, i)>> \o replay_filter_stuck(pixels, to_remove, i + 1, k)

\* remove_seams' filter pass over pixel_data for one history entry
RECURSIVE replay_filter(_, _, _, _)
replay_filter(pixels, to_remove, i, k) ==
    IF i >= Len(pixels) THEN <<>>
    ELSE IF k /= Len(to_remove) /\ i = Nth(to_remove, k)
         THEN replay_filter(pixels, to_remove, i + 1, k + 1)
         ELSE <<Nth(pixels, i)>> \o replay_filter(pixels, to_remove, i + 1, k)

\* remove_seams' loop as a whole, from entry i on: what pixel_data is after the
\* entries i..num_seams-1 of history were filtered out of it
RECURSIVE remove_seams_pixels(_, _, _, _)
remove_seams_pixels(pixel_data, history, i, num_seams) ==
    IF ~U32Less(i, num_seams) THEN pixel_data
    ELSE remove_seams_pixels(replay_filter(pixel_data, Nth(history, i), 0, 0),
                             history, i + 1, num_seams)

\* let to_remove = &self.removed_seams.lock().unwrap()[i]: the guard lives to
\* the end of the loop body
RsLock ==
    /\ ui.pc = "rs_lock"
    /\ bundle.lock = "free"
    /\ IF bundle.poisoned
       THEN /\ ui' = [ui EXCEPT !.pc = "panicked_rs"]
            /\ UNCHANGED sessions
       ELSE /\ ui' = [ui EXCEPT !.pc = "rs_filter"]
            /\ SetBundle([bundle EXCEPT !.lock = "ui"])
    /\ UNCHANGED <<build, algoVars, slider_value, dragging, req, slider_hi>>

\* the index [i] (out of range: a panic that poisons the lock), the filter
\* pass, the guard's drop, and the loop's next iteration test
RsFilter ==
    /\ ui.pc = "rs_filter"
    /\ IF ~ReadOk(bundle.removed_seams, ui.i)
       THEN /\ ui' = [ui EXCEPT !.pc = "panicked_rs"]
            /\ SetBundle([bundle EXCEPT !.lock = "free", !.poisoned = TRUE])
       ELSE /\ ui' = [ui EXCEPT
                  !.pixel_data = replay_filter(ui.pixel_data,
                                     Nth(bundle.removed_seams, ui.i), 0, 0),
                  !.i = ui.i + 1,
                  !.pc = IF U32Less(ui.i + 1, ui.num_seams)
                         THEN "rs_lock" ELSE "rs_canvas"]
            /\ SetBundle([bundle EXCEPT !.lock = "free"])
    /\ UNCHANGED <<build, algoVars, slider_value, dragging, req, slider_hi>>

\* canvas.lock().unwrap().update_pixels(gl, image.width() - num_seams, ..)
RsCanvas ==
    /\ ui.pc = "rs_canvas"
    /\ IF U32Less(bundle.image.width, ui.num_seams) /\ build = "debug"
       THEN /\ ui' = [ui EXCEPT !.pc = "panicked_rs"]
            /\ UNCHANGED sessions
       ELSE /\ ui' = UiIdle
            /\ SetBundle([bundle EXCEPT !.canvas =
                   MkGrid(ui.pixel_data, bundle.image.width - ui.num_seams,
                          bundle.image.height)])
    /\ UNCHANGED <<build, algoVars, slider_value, dragging, req, slider_hi>>

Next ==
    \/ \E img \in Images : Load(img)
    \/ \E img \in Images : Reload(img)
    \/ DrawPanic
    \/ \E n \in Requests : FrameDrag(n)
    \/ FrameRelease
    \/ RsLock
    \/ RsFilter
    \/ RsCanvas
    \/ \E s \in 1..Len(sessions) : WStart(s)
    \/ \E s \in 1..Len(sessions) : WCompute(s)
    \/ \E s \in 1..Len(sessions) : WLock(s)
    \/ \E s \in 1..Len(sessions) : WPush(s)

Spec == Init /\ [][Next]_vars

----------------------------------------------------------------------------
(* Properties of remove_vertical_seam (AlgoSpec) *)

Carved == apc = "done" /\ result.ok

\* The column of each row of a seam of flat offsets into a grid of width w
SeamCols(seam, w) == [r \in 1..Len(seam) |-> seam[r] - (r - 1) * w]

Abs(x) == IF x < 0 THEN -x ELSE x

\* Every connected top-to-bottom seam of a w x h grid, as its columns
ConnectedSeams(w, h) ==
    {f \in [1..h -> 0..(w - 1)] : \A r \in 1..(h - 1) : Abs(f[r] - f[r + 1]) <= 1}

RECURSIVE SumTo(_, _)
SumTo(f, n) == IF n = 0 THEN 0 ELSE f[n] + SumTo(f, n - 1)

SeamEnergy(en, w, cols) ==
    SumTo([r \in 1..Len(cols) |-> Nth(en, (r - 1) * w + cols[r])], Len(cols))

SetMin(S) == CHOOSE x \in S : \A y \in S : x <= y

\* Row r of the table of cheapest seams, given the row above it: the entry of
\* column c is the least total energy of a connected seam from row 0 to (r, c)
RECURSIVE CheapestRow(_, _, _, _, _)
CheapestRow(en, w, r, above, row) ==
    IF Len(row) = w THEN row
    ELSE LET c == Len(row)
             least == IF r = 0 THEN 0
                      ELSE SetMin({Nth(above, p) :
                                      p \in {c - 1, c, c + 1} \cap (0..(w - 1))})
         IN  CheapestRow(en, w, r, above, Append(row, Nth(en, r * w + c) + least))

RECURSIVE CheapestRows(_, _, _, _, _)
CheapestRows(en, w, h, r, rows) ==
    IF r = h THEN rows
    ELSE CheapestRows(en, w, h, r + 1,
             Append(rows, CheapestRow(en, w, r, IF r = 0 THEN <<>> ELSE rows[r], <<>>)))

LeftmostMin(row, cands) ==
    SetMin({c \in cands : \A p \in cands : Nth(row, c) <= Nth(row, p)})

\* The seam of the leftmost-minimum rule, from row r (in column c) up to row 0
RECURSIVE RuleUp(_, _, _, _)
RuleUp(rows, w, r, c) ==
    IF r = 0 THEN <<c>>
    ELSE Append(RuleUp(rows, w, r - 1,
                       LeftmostMin(rows[r], {c - 1, c, c + 1} \cap (0..(w - 1)))),
                c)

RuleSeam(en, w, h) ==
    LET rows == CheapestRows(en, w, h, 0, <<>>)
    IN  RuleUp(rows, w, h - 1, LeftmostMin(rows[h], 0..(w - 1)))

\* C8: the seam remove_vertical_seam returns has the least total energy of all
\* connected top-to-bottom seams of the grid, and is the seam of the
\* leftmost-minimum rule (leftmost least dp value in the last row, then upward
\* the leftmost least dp value among the adjacent columns of the row above).
C8_MinimalLeftmostSeam ==
    Carved =>
        LET w == grid.width
            h == grid.height
            cols == SeamCols(result.seam, w)
        IN  /\ Len(result.seam) = h
            /\ cols \in ConnectedSeams(w, h)
            /\ \A f \in ConnectedSeams(w, h) :
                   SeamEnergy(result.energy, w, cols) <= SeamEnergy(result.energy, w, f)
            /\ cols = RuleSeam(result.energy, w, h)

\* A grid whose cheapest seam is not unique and not a straight column
C8_Witness ==
    /\ Carved
    /\ grid.width = MaxW /\ grid.height = MaxH
    /\ LET w == grid.width
           cols == SeamCols(result.seam, w)
       IN  /\ \E r \in 1..(grid.height - 1) : cols[r] /= cols[r + 1]
           /\ \E f \in ConnectedSeams(w, grid.height) :
                  /\ f /= cols
                  /\ SeamEnergy(result.energy, w, f) = SeamEnergy(result.energy, w, cols)

Scenario == MkGrid(<<Black, Grey10, Black, Black, Grey10, Black, Black, Grey10, Black>>, 3, 3)

\* C9 as stated: on the 3x3 grid with a (10,10,10) column between two (0,0,0)
\* columns the energy is above 0 at every entry of column 1, and the first
\* seam is column 0 in every row.
C9_BrightColumnAvoided ==
    (apc = "done" /\ grid = Scenario) =>
        /\ result.ok
        /\ \A r \in 0..2 : Nth(result.energy, 3 * r + 1) > 0
        /\ SeamCols(result.seam, 3) = <<0, 0, 0>>

\* C9 amended: on that grid the energy is 0 at every entry of column 1 (its
\* left and right neighbours are equal, and so are the pixels above and below)
\* and 300 at every entry of columns 0 and 2, and the first seam is column 1 in
\* every row: the bright column is the one removed.
C9_BrightColumnRemoved ==
    (apc = "done" /\ grid = Scenario) =>
        /\ result.ok
        /\ result.energy = <<300, 0, 300, 300, 0, 300, 300, 0, 300>>
        /\ SeamCols(result.seam, 3) = <<1, 1, 1>>
        /\ result.grid = MkGrid(<<Black, Black, Black, Black, Black, Black>>, 2, 3)

C9_Witness == apc = "done" /\ grid = Scenario /\ result.ok

\* C10: remove_vertical_seam has no failure case on a grid of width >= 1 and
\* height >= 1, and on a grid of width 1 it returns the single-column seam
\* (offset r for row r).
C10_NoFailure ==
    (apc = "done" /\ grid.width >= 1 /\ grid.height >= 1) =>
        /\ result.ok
        /\ grid.width = 1 => result.seam = [r \in 1..grid.height |-> r - 1]

----------------------------------------------------------------------------
(* Properties of the engine (Spec) *)

Engines == {sessions[s] : s \in 1..Len(sessions)}

Running(e) == e.wpc \notin {"done", "panicked"}

IsPrefix(a, b) == Len(a) <= Len(b) /\ SubSeq(b, 1, Len(a)) = a

\* What remove_seams(gl, n) hands to the canvas
Preview(e, n) ==
    MkGrid(remove_seams_pixels(e.image.pixels, e.removed_seams, 0, n),
           e.image.width - n, e.image.height)

\* The seams the worker has removed from its working grid
Removed(e) == Len(e.removed_seams) + (IF e.wpc \in {"lock", "push"} THEN 1 ELSE 0)

\* The seams the worker has taken out of its working grid, in order: the
\* history and, between remove_vertical_seam and the push, the seam in hand
WorkerSeams(e) ==
    IF e.wpc \in {"lock", "push"} THEN Append(e.removed_seams, e.to_push)
    ELSE e.removed_seams

\* C1: the replay of the worker's seams on a fresh copy of the image is the
\* worker's working grid, pixel for pixel, with width original_width - n, the
\* same height and width * height pixels, in every state the worker passes
\* through, so after every n seams from 0 to the progress (the history only
\* grows, C3); the canvas holds the replay of n history entries, of the same
\* dimensions, for an n within the history.
C1_ReplayDeterminism ==
    \A e \in Engines :
        /\ e.algo = MkGrid(remove_seams_pixels(e.image.pixels, WorkerSeams(e), 0, Removed(e)),
                           e.image.width - Removed(e), e.image.height)
        /\ Len(e.algo.pixels) = (e.image.width - Removed(e)) * e.image.height
        /\ e.canvas /= Dropped =>
               /\ e.image.width - e.canvas.width \in 0..Len(e.removed_seams)
               /\ e.canvas = Preview(e, e.image.width - e.canvas.width)
               /\ Len(e.canvas.pixels) = e.canvas.width * e.image.height

\* A preview of two seams of an image of two or more rows is on the canvas
C1_Witness ==
    /\ Len(sessions) > 0
    /\ ui.pc = "idle"
    /\ bundle.image.height >= 2
    /\ bundle.canvas.width = bundle.image.width - 2
    /\ Len(bundle.canvas.pixels) = bundle.canvas.width * bundle.image.height

InRemoveSeams == ui.pc \in {"rs_lock", "rs_filter", "rs_canvas"}

\* C2: a request for any n, also one above the progress, made while the worker
\* runs, never fails: the slider clamps n to the progress it read, the value
\* stays within the progress, remove_seams does not panic, and the grid it
\* hands over has width original_width - min(n, progress read) and is the
\* image without the history entries 0..min(n, progress read)-1.
C2_ClampedPreview ==
    /\ ui.pc /= "panicked_rs"
    /\ slider_value = Min2(req, slider_hi)
    /\ (dragging \/ InRemoveSeams) => slider_value <= Len(bundle.removed_seams)
    /\ InRemoveSeams =>
           /\ ui.num_seams = slider_value
           /\ ui.i <= ui.num_seams
           /\ ui.pixel_data
                = remove_seams_pixels(bundle.image.pixels, bundle.removed_seams, 0, ui.i)
    /\ ui.pc = "rs_canvas" =>
           /\ ui.i = ui.num_seams
           /\ Len(ui.pixel_data)
                = (bundle.image.width - Min2(req, slider_hi)) * bundle.image.height

\* A request above the progress was clamped, and its preview is complete while
\* the worker still runs
C2_Witness ==
    /\ ui.pc = "rs_canvas"
    /\ req > slider_hi
    /\ ui.num_seams >= 1
    /\ Running(bundle)

\* C3: the history is append-only: every step leaves each engine's history a
\* prefix of what it is after the step, so its length never decreases; and
\* the UI holds the history lock only while the worker is not appending.
C3_AppendOnly ==
    [][\A s \in 1..Len(sessions) :
           /\ s <= Len(sessions')
           /\ IsPrefix(sessions[s].removed_seams, sessions'[s].removed_seams)
           /\ sessions'[s].lock = "ui" => sessions'[s].wpc /= "push"]_vars

\* The slider read a progress of 1 and the history has since grown to 2
C3_Witness ==
    /\ Len(sessions) = 1
    /\ dragging
    /\ slider_hi = 1
    /\ Len(bundle.removed_seams) = 2

\* C4: at most one background worker runs at any time (a load first cancels
\* and joins the previous worker).
C4_OneWorker == Cardinality({s \in 1..Len(sessions) : Running(sessions[s])}) <= 1

Max2(a, b) == IF a < b THEN b ELSE a

\* C5: the uncancelled loop ends normally for every image width >= 1: the
\* worker never panics, the working width never goes below
\* min(original_width, 10), and the final history length is
\* max(0, original_width - 10).
C5_StopsAtFloor ==
    \A e \in Engines :
        /\ e.wpc /= "panicked"
        /\ e.algo.width >= Min2(e.image.width, Floor)
        /\ e.wpc = "done" => Len(e.removed_seams) = Max2(0, e.image.width - Floor)

\* C6: the worker holds the history lock only for one append, never while it
\* computes a seam; the UI holds it only inside one filter pass and holds no
\* lock while it waits; so whenever the UI is inside remove_seams, either its
\* own next step can be taken or the worker's append, which frees the lock.
C6_NoWaitOnCompute ==
    /\ \A s \in 1..Len(sessions) :
           /\ sessions[s].lock = "worker" => sessions[s].wpc = "push"
           /\ sessions[s].lock = "ui" => (s = Len(sessions) /\ ui.pc = "rs_filter")
           /\ sessions[s].algo_lock = "worker" => Running(sessions[s])
    /\ ui.pc = "rs_lock" => (ENABLED RsLock) \/ (ENABLED WPush(Len(sessions)))
    /\ ui.pc = "rs_filter" => ENABLED RsFilter
    /\ ui.pc = "rs_canvas" => ENABLED RsCanvas

\* The worker is computing a seam while a preview takes the history lock
C6_Witness ==
    /\ ui.pc = "rs_lock"
    /\ bundle.wpc = "compute"
    /\ bundle.lock = "free"
    /\ Len(bundle.removed_seams) >= 1

WellFormedSeam(seam, w, h) ==
    /\ Len(seam) = h
    /\ \A r \in 1..h : (r - 1) * w <= seam[r] /\ seam[r] < r * w
    /\ \A r \in 1..(h - 1) :
           /\ seam[r] < seam[r + 1]
           /\ Abs(SeamCols(seam, w)[r] - SeamCols(seam, w)[r + 1]) <= 1

\* C7: the i-th history entry (from 0) has height offsets, the r-th of them in
\* row r of a grid of width original_width - i, strictly increasing, with the
\* columns of consecutive rows at most 1 apart; so has the seam about to be
\* appended.
C7_SeamsWellFormed ==
    \A e \in Engines :
        /\ \A i \in 1..Len(e.removed_seams) :
               WellFormedSeam(e.removed_seams[i], e.image.width - (i - 1), e.image.height)
        /\ e.wpc \in {"lock", "push"} =>
               WellFormedSeam(e.to_push, e.image.width - Len(e.removed_seams),
                              e.image.height)

\* Two different seams of two or more rows were appended, the second not a
\* straight column
C7_Witness ==
    \E e \in Engines :
        /\ Len(e.removed_seams) >= 2
        /\ e.image.height >= 2
        /\ e.removed_seams[1] /= e.removed_seams[2]
        /\ LET cols == SeamCols(e.removed_seams[2], e.image.width - 1)
           IN  cols[1] /= cols[2]

====
